---------------------------- MODULE Spec2Model ----------------------------
(***************************************************************************)
(* Annotation accessor shim of libsbml-rs, src/src/utils.hpp and           *)
(* src/src/annotation.hpp: for each of the element kinds Model,            *)
(* Compartment, Species, UnitDefinition and Unit a getter and a setter     *)
(* that forward to the libSBML element behind a pointer.                   *)
(*                                                                         *)
(* A std::string is a finite sequence of characters and may hold the NUL   *)
(* character anywhere.  A C string, which is what c_str() hands to a       *)
(* callee that takes a pointer to char, ends at the first NUL.             *)
(***************************************************************************)
EXTENDS Naturals, Sequences, FiniteSets

\* Longest std::string a caller passes in the model.
MaxLen == 2

\* The terminator of a C string.
NUL == 0

\* Characters: NUL and one ordinary character ('a').
Char == {NUL, 97}

\* Every std::string of at most MaxLen characters, embedded NULs included.
String == UNION {[1..n -> Char] : n \in 0..MaxLen}

\* The strings a pointer to char can denote: no NUL before the end.
CString == UNION {[1..n -> Char \ {NUL}] : n \in 0..MaxLen}

\* The null pointer, and the one element of each kind (named by its kind).
NULL == "NULL"
Element == {"Model", "Compartment", "Species", "UnitDefinition", "Unit"}
ModelPtr == {NULL, "Model"}
CompartmentPtr == {NULL, "Compartment"}
SpeciesPtr == {NULL, "Species"}
UnitDefinitionPtr == {NULL, "UnitDefinition"}
UnitPtr == {NULL, "Unit"}

\* An element as the library constructs it: no annotation set.
Fresh == [isSet |-> FALSE, annotation |-> <<>>]

VARIABLES
    elems,  \* the annotation field of every element, owned by the library
    last    \* the most recent call: function, arguments, outcome

vars == <<elems, last>>

(***************************************************************************)
(* std::string::c_str() as read by a callee that takes a pointer to char:  *)
(* the characters before the first NUL.                                    *)
(***************************************************************************)
RECURSIVE c_str(_)
c_str(s) ==
    IF s = <<>> \/ Head(s) = NUL
    THEN <<>>
    ELSE <<Head(s)>> \o c_str(Tail(s))

(***************************************************************************)
(* The library's accessors, called on a non-null element p.                *)
(***************************************************************************)
isSetAnnotation(e, p) == e[p].isSet

\* The strings the library may return.  What it returns for an element
\* without annotation is not fixed by this repository: any C string.
getAnnotationString(e, p) ==
    IF e[p].isSet THEN {e[p].annotation} ELSE CString

\* The library keeps the C string it is handed as the element's annotation.
setAnnotation(e, p, cstr) ==
    [e EXCEPT ![p] = [isSet |-> TRUE, annotation |-> cstr]]

(***************************************************************************)
(* What a call does: the elements afterwards, whether it faulted (a null   *)
(* pointer dereferenced), and the string returned (empty for a setter).    *)
(* A getter yields the set of its possible outcomes, a setter its outcome. *)
(***************************************************************************)
Outcome(e, f, v) == [elems |-> e, fault |-> f, value |-> v]

\* Mutant: annotation.hpp's getter without the isSetAnnotation test.
annotation_getSpeciesAnnotationString_NoIsSet(e, species) ==
    IF species # NULL
    THEN {Outcome(e, FALSE, v) : v \in getAnnotationString(e, species)}
    ELSE {Outcome(e, FALSE, <<>>)}

\* annotation.hpp: utils::getSpeciesAnnotationString
annotation_getSpeciesAnnotationString(e, species) ==
    IF species # NULL /\ isSetAnnotation(e, species)
    THEN {Outcome(e, FALSE, v) : v \in getAnnotationString(e, species)}
    ELSE {Outcome(e, FALSE, <<>>)}

\* Mutant: the getter without the isSetAnnotation test.
getModelAnnotationString_NoIsSet(e, model) ==
    IF model # NULL
    THEN {Outcome(e, FALSE, v) : v \in getAnnotationString(e, model)}
    ELSE {Outcome(e, FALSE, <<>>)}

\* utils.hpp: utils::getModelAnnotationString
getModelAnnotationString(e, model) ==
    IF model # NULL /\ isSetAnnotation(e, model)
    THEN {Outcome(e, FALSE, v) : v \in getAnnotationString(e, model)}
    ELSE {Outcome(e, FALSE, <<>>)}

\* utils.hpp: utils::setModelAnnotation
setModelAnnotation(e, model, annotation) ==
    IF model # NULL
    THEN Outcome(setAnnotation(e, model, c_str(annotation)), FALSE, <<>>)
    ELSE Outcome(e, FALSE, <<>>)

\* Mutant: the getter with the isSetAnnotation test inverted.
getCompartmentAnnotationString_Inverted(e, compartment) ==
    IF compartment # NULL /\ ~isSetAnnotation(e, compartment)
    THEN {Outcome(e, FALSE, v) : v \in getAnnotationString(e, compartment)}
    ELSE {Outcome(e, FALSE, <<>>)}

\* utils.hpp: utils::getCompartmentAnnotationString
getCompartmentAnnotationString(e, compartment) ==
    IF compartment # NULL /\ isSetAnnotation(e, compartment)
    THEN {Outcome(e, FALSE, v) : v \in getAnnotationString(e, compartment)}
    ELSE {Outcome(e, FALSE, <<>>)}

\* Mutant: the setter calling the library's appendAnnotation, which adds to
\* the annotation already there.
setCompartmentAnnotation_Append(e, compartment, annotation) ==
    IF compartment # NULL
    THEN Outcome(setAnnotation(e, compartment,
                     e[compartment].annotation \o c_str(annotation)), FALSE, <<>>)
    ELSE Outcome(e, FALSE, <<>>)

\* utils.hpp: utils::setCompartmentAnnotation
setCompartmentAnnotation(e, compartment, annotation) ==
    IF compartment # NULL
    THEN Outcome(setAnnotation(e, compartment, c_str(annotation)), FALSE, <<>>)
    ELSE Outcome(e, FALSE, <<>>)

\* Mutant: the getter giving an element without annotation an empty one.
getSpeciesAnnotationString_Initialises(e, species) ==
    IF species # NULL /\ isSetAnnotation(e, species)
    THEN {Outcome(e, FALSE, v) : v \in getAnnotationString(e, species)}
    ELSE IF species # NULL
         THEN {Outcome(setAnnotation(e, species, <<>>), FALSE, <<>>)}
         ELSE {Outcome(e, FALSE, <<>>)}

\* utils.hpp: utils::getSpeciesAnnotationString
getSpeciesAnnotationString(e, species) ==
    IF species # NULL /\ isSetAnnotation(e, species)
    THEN {Outcome(e, FALSE, v) : v \in getAnnotationString(e, species)}
    ELSE {Outcome(e, FALSE, <<>>)}

\* Mutant: the setter without the null test; the call through the null
\* pointer faults.
setSpeciesAnnotation_NoNullTest(e, species, annotation) ==
    IF species # NULL
    THEN Outcome(setAnnotation(e, species, c_str(annotation)), FALSE, <<>>)
    ELSE Outcome(e, TRUE, <<>>)

\* utils.hpp: utils::setSpeciesAnnotation
setSpeciesAnnotation(e, species, annotation) ==
    IF species # NULL
    THEN Outcome(setAnnotation(e, species, c_str(annotation)), FALSE, <<>>)
    ELSE Outcome(e, FALSE, <<>>)

\* Mutant: the getter without the null test; the call through the null
\* pointer faults.
getUnitDefinitionAnnotationString_NoNullTest(e, unit_definition) ==
    IF unit_definition = NULL
    THEN {Outcome(e, TRUE, <<>>)}
    ELSE IF isSetAnnotation(e, unit_definition)
         THEN {Outcome(e, FALSE, v) : v \in getAnnotationString(e, unit_definition)}
         ELSE {Outcome(e, FALSE, <<>>)}

\* utils.hpp: utils::getUnitDefinitionAnnotationString
getUnitDefinitionAnnotationString(e, unit_definition) ==
    IF unit_definition # NULL /\ isSetAnnotation(e, unit_definition)
    THEN {Outcome(e, FALSE, v) : v \in getAnnotationString(e, unit_definition)}
    ELSE {Outcome(e, FALSE, <<>>)}

\* utils.hpp: utils::setUnitDefinitionAnnotation
setUnitDefinitionAnnotation(e, unit_definition, annotation) ==
    IF unit_definition # NULL
    THEN Outcome(setAnnotation(e, unit_definition, c_str(annotation)), FALSE, <<>>)
    ELSE Outcome(e, FALSE, <<>>)

\* utils.hpp: utils::getUnitAnnotationString
getUnitAnnotationString(e, unit) ==
    IF unit # NULL /\ isSetAnnotation(e, unit)
    THEN {Outcome(e, FALSE, v) : v \in getAnnotationString(e, unit)}
    ELSE {Outcome(e, FALSE, <<>>)}

\* utils.hpp: utils::setUnitAnnotation
setUnitAnnotation(e, unit, annotation) ==
    IF unit # NULL
    THEN Outcome(setAnnotation(e, unit, c_str(annotation)), FALSE, <<>>)
    ELSE Outcome(e, FALSE, <<>>)

(***************************************************************************)
(* The record of a call.  old is the annotation field of the element the   *)
(* call was handed as it was before the call (Fresh for a null pointer).   *)
(***************************************************************************)
Before(p) == IF p = NULL THEN Fresh ELSE elems[p]

Call(op, fn, p, text, out) ==
    /\ elems' = out.elems
    /\ last' = [op |-> op, fn |-> fn, handle |-> p, text |-> text,
                fault |-> out.fault, value |-> out.value, old |-> Before(p)]

Init ==
    /\ elems = [k \in Element |-> Fresh]
    /\ last = [op |-> "none", fn |-> "none", handle |-> NULL, text |-> <<>>,
               fault |-> FALSE, value |-> <<>>, old |-> Fresh]

CallAnnotationGetSpeciesAnnotationString ==
    \E species \in SpeciesPtr :
        \E out \in annotation_getSpeciesAnnotationString(elems, species) :
            Call("get", "annotation.hpp:getSpeciesAnnotationString", species, <<>>, out)

CallGetModelAnnotationString ==
    \E model \in ModelPtr :
        \E out \in getModelAnnotationString(elems, model) :
            Call("get", "getModelAnnotationString", model, <<>>, out)

CallSetModelAnnotation ==
    \E model \in ModelPtr, annotation \in String :
        Call("set", "setModelAnnotation", model, annotation,
             setModelAnnotation(elems, model, annotation))

CallGetCompartmentAnnotationString ==
    \E compartment \in CompartmentPtr :
        \E out \in getCompartmentAnnotationString(elems, compartment) :
            Call("get", "getCompartmentAnnotationString", compartment, <<>>, out)

CallSetCompartmentAnnotation ==
    \E compartment \in CompartmentPtr, annotation \in String :
        Call("set", "setCompartmentAnnotation", compartment, annotation,
             setCompartmentAnnotation(elems, compartment, annotation))

CallGetSpeciesAnnotationString ==
    \E species \in SpeciesPtr :
        \E out \in getSpeciesAnnotationString(elems, species) :
            Call("get", "getSpeciesAnnotationString", species, <<>>, out)

CallSetSpeciesAnnotation ==
    \E species \in SpeciesPtr, annotation \in String :
        Call("set", "setSpeciesAnnotation", species, annotation,
             setSpeciesAnnotation(elems, species, annotation))

CallGetUnitDefinitionAnnotationString ==
    \E unit_definition \in UnitDefinitionPtr :
        \E out \in getUnitDefinitionAnnotationString(elems, unit_definition) :
            Call("get", "getUnitDefinitionAnnotationString", unit_definition, <<>>, out)

CallSetUnitDefinitionAnnotation ==
    \E unit_definition \in UnitDefinitionPtr, annotation \in String :
        Call("set", "setUnitDefinitionAnnotation", unit_definition, annotation,
             setUnitDefinitionAnnotation(elems, unit_definition, annotation))

CallGetUnitAnnotationString ==
    \E unit \in UnitPtr :
        \E out \in getUnitAnnotationString(elems, unit) :
            Call("get", "getUnitAnnotationString", unit, <<>>, out)

CallSetUnitAnnotation ==
    \E unit \in UnitPtr, annotation \in String :
        Call("set", "setUnitAnnotation", unit, annotation,
             setUnitAnnotation(elems, unit, annotation))

Next ==
    \/ CallAnnotationGetSpeciesAnnotationString
    \/ CallGetModelAnnotationString
    \/ CallSetModelAnnotation
    \/ CallGetCompartmentAnnotationString
    \/ CallSetCompartmentAnnotation
    \/ CallGetSpeciesAnnotationString
    \/ CallSetSpeciesAnnotation
    \/ CallGetUnitDefinitionAnnotationString
    \/ CallSetUnitDefinitionAnnotation
    \/ CallGetUnitAnnotationString
    \/ CallSetUnitAnnotation

Spec == Init /\ [][Next]_vars

(***************************************************************************)
(* Properties.  In a step, last' is the call the step makes and last the   *)
(* call before it.                                                         *)
(***************************************************************************)

\* C1: after setAnnotation(handle, s) on a non-null handle, the next
\* getAnnotationString(handle) returns exactly s.
C1_RoundTrip ==
    [][(/\ last.op = "set" /\ last.handle # NULL
        /\ last'.op = "get" /\ last'.handle = last.handle)
       => (last'.value = last.text /\ ~last'.fault)]_vars

\* C2: a getter called with a null handle returns the empty string and
\* does not fault.
C2_NullGetterEmpty ==
    (last.op = "get" /\ last.handle = NULL)
        => (last.value = <<>> /\ ~last.fault)

C2_Witness ==
    /\ last.fn = "getUnitDefinitionAnnotationString"
    /\ last.handle = NULL
    /\ elems["UnitDefinition"].isSet
    /\ elems["UnitDefinition"].annotation # <<>>

\* C3: a setter called with a null handle and any text does not fault and
\* leaves the annotation state of every element as it was.
C3_NullSetterNoOp ==
    [][(last'.op = "set" /\ last'.handle = NULL)
       => (elems' = elems /\ ~last'.fault)]_vars

C3_Witness ==
    /\ last.fn = "setSpeciesAnnotation"
    /\ last.handle = NULL
    /\ last.text # <<>>
    /\ elems["Species"].isSet
    /\ \E k \in Element : ~elems[k].isSet

\* C4: a getter called with a non-null handle whose element has no
\* annotation set returns the empty string, whatever was called on the
\* other elements before.
C4_UnsetGetterEmpty ==
    (last.op = "get" /\ last.handle # NULL /\ ~last.old.isSet)
        => (last.value = <<>> /\ ~last.fault)

C4_Witness ==
    /\ last.fn = "getCompartmentAnnotationString"
    /\ last.handle = "Compartment"
    /\ ~last.old.isSet
    /\ \A k \in Element \ {"Compartment"} :
           elems[k].isSet /\ elems[k].annotation # <<>>

\* C5: last write wins: after setAnnotation(handle, s1) and then
\* setAnnotation(handle, s2) on a non-null handle, getAnnotationString(handle)
\* returns s2.
C5_LastWriteWins ==
    [][(/\ last.op = "set" /\ last.handle # NULL /\ last.old.isSet
        /\ last'.op = "get" /\ last'.handle = last.handle)
       => last'.value = last.text]_vars

\* C6: after setAnnotation(handle, text) on a non-null handle the element's
\* annotation is set and equals text, character for character.
C6_StoredVerbatim ==
    (last.op = "set" /\ last.handle # NULL)
        => (/\ elems[last.handle].isSet
            /\ elems[last.handle].annotation = last.text)

\* C7: a getter call leaves the annotation state of every element unchanged,
\* and a setter call leaves that of every element other than its argument
\* unchanged.
C7_Frame ==
    [][/\ last'.op = "get" => elems' = elems
       /\ last'.op = "set" =>
              \A k \in Element \ {last'.handle} : elems'[k] = elems[k]]_vars

C7_Witness ==
    /\ last.fn = "setSpeciesAnnotation"
    /\ last.handle = "Species"
    /\ last.old # elems["Species"]
    /\ \E k \in Element \ {"Species"} :
           /\ elems[k].isSet
           /\ elems[k].annotation # elems["Species"].annotation

\* C8: a setter call repeated with the same handle and text leaves the
\* annotation state as the first call left it, and a getter call repeated
\* with the same handle returns what the first call returned.
C8_Idempotent ==
    [][/\ (/\ last.op = "set" /\ last'.op = "set"
           /\ last'.fn = last.fn /\ last'.handle = last.handle
           /\ last'.text = last.text)
          => elems' = elems
       /\ (/\ last.op = "get" /\ last'.op = "get"
           /\ last'.fn = last.fn /\ last'.handle = last.handle)
          => (last'.value = last.value /\ elems' = elems)]_vars

\* The second of two equal setter calls has acted: the call found the
\* element holding what it stores.
C8_Witness ==
    /\ last.fn = "setCompartmentAnnotation"
    /\ last.handle = "Compartment"
    /\ last.text # <<>>
    /\ last.old.isSet
    /\ last.old = elems["Compartment"]

\* C9: for an element without annotation, the getter's outcome on the null
\* handle and its outcome on the element are the same: the empty string,
\* no fault.
C9_NullIndistinguishable ==
    /\ ~elems["Model"].isSet =>
          /\ getModelAnnotationString(elems, NULL)
                 = getModelAnnotationString(elems, "Model")
          /\ \A o \in getModelAnnotationString(elems, "Model") :
                 o.value = <<>> /\ ~o.fault
    /\ ~elems["Compartment"].isSet =>
          /\ getCompartmentAnnotationString(elems, NULL)
                 = getCompartmentAnnotationString(elems, "Compartment")
          /\ \A o \in getCompartmentAnnotationString(elems, "Compartment") :
                 o.value = <<>> /\ ~o.fault
    /\ ~elems["Species"].isSet =>
          /\ getSpeciesAnnotationString(elems, NULL)
                 = getSpeciesAnnotationString(elems, "Species")
          /\ \A o \in getSpeciesAnnotationString(elems, "Species") :
                 o.value = <<>> /\ ~o.fault
    /\ ~elems["UnitDefinition"].isSet =>
          /\ getUnitDefinitionAnnotationString(elems, NULL)
                 = getUnitDefinitionAnnotationString(elems, "UnitDefinition")
          /\ \A o \in getUnitDefinitionAnnotationString(elems, "UnitDefinition") :
                 o.value = <<>> /\ ~o.fault
    /\ ~elems["Unit"].isSet =>
          /\ getUnitAnnotationString(elems, NULL)
                 = getUnitAnnotationString(elems, "Unit")
          /\ \A o \in getUnitAnnotationString(elems, "Unit") :
                 o.value = <<>> /\ ~o.fault

C9_Witness ==
    /\ last.fn = "getModelAnnotationString"
    /\ last.handle = "Model"
    /\ ~elems["Model"].isSet
    /\ elems["Unit"].isSet

\* C10: the getSpeciesAnnotationString of annotation.hpp and that of
\* utils.hpp have the same outcomes for every Species handle, and neither
\* changes an element.
C10_SpeciesGettersAgree ==
    \A species \in SpeciesPtr :
        /\ annotation_getSpeciesAnnotationString(elems, species)
               = getSpeciesAnnotationString(elems, species)
        /\ \A o \in annotation_getSpeciesAnnotationString(elems, species)
                        \cup getSpeciesAnnotationString(elems, species) :
               o.elems = elems

C10_Witness ==
    /\ last.fn = "annotation.hpp:getSpeciesAnnotationString"
    /\ last.handle = "Species"
    /\ last.value # <<>>

=============================================================================
